---- MODULE Spec2Model ----
(***************************************************************************)
(* The SSE Scotland capacity dashboard: the record fetcher, the region     *)
(* classifier, the capacity aggregator (sse_analyzer.py, test3.py) and the *)
(* cached summary with its on-disk snapshot (app.py).                      *)
(*                                                                         *)
(* Text is a sequence of one-character strings, so that substring search,  *)
(* case folding and the postcode prefix are computed, not assumed.         *)
(* Capacities are integers counting tenths of a MW; every number carries   *)
(* the run-time type that produced it (int, float, int64, float64).        *)
(***************************************************************************)
EXTENDS Integers, Sequences, FiniteSets, TLC

VARIABLES
    capacity_data,   \* app.py global: the cached summary, or None
    last_updated,    \* app.py global: datetime of the last fresh build, or None
    file,            \* data_cache.json: absent, unparseable, or a JSON document
    clock,           \* number of datetime.now() calls made so far
    stampCall,       \* history: the call that drew each timestamp
    calls,           \* number of get_capacity_data calls started
    queries,         \* number of remote queries issued so far
    pc,              \* per handler thread: position in get_capacity_data
    force,           \* per handler thread: the force_refresh argument
    df,              \* per handler thread: the fetched DataFrame
    cid,             \* per handler thread: the number of its current call
    ret,             \* per handler thread: what the last call returned or raised
    via,             \* per handler thread: the branch the last call took
    atCall,          \* history: capacity_data and queries when the call started
    raised,          \* history: a call of this process has ended with an exception
    game,            \* per handler thread: the last calculate_blackout response
    fetchIn,         \* fetcher run: the limit argument and the responses served
    fetchOut,        \* fetcher run: result of sse_analyzer.fetch_scotland_data
    fetchOut3,       \* fetcher run: result of test3.fetch_scotland_data
    filterIn,        \* classifier run: the input DataFrame
    filterOut,       \* classifier run: result of sse_analyzer.filter_scotland_data
    filterOut3,      \* classifier run: result of test3.filter_scotland_data
    filterAgain,     \* classifier run: result of classifying filterOut once more
    totalsIn,        \* aggregator run: the input DataFrame
    totalsOut        \* aggregator run: result of calculate_capacity_totals

vars == << capacity_data, last_updated, file, clock, stampCall, calls, queries,
           pc, force, df, cid, ret, via, atCall, raised, game,
           fetchIn, fetchOut, fetchOut3, filterIn, filterOut, filterOut3,
           filterAgain, totalsIn, totalsOut >>

appVars == << capacity_data, last_updated, file, clock, stampCall, calls, queries,
              pc, force, df, cid, ret, via, atCall, raised, game >>
fetchVars == << fetchIn, fetchOut, fetchOut3 >>
filterVars == << filterIn, filterOut, filterOut3, filterAgain >>
totalsVars == << totalsIn, totalsOut >>
pureVars == << fetchIn, fetchOut, fetchOut3, filterIn, filterOut, filterOut3,
              filterAgain, totalsIn, totalsOut >>

None == [k |-> "None"]

-----------------------------------------------------------------------------
(* Text *)

UpperLetters == <<"A", "B", "C", "D", "E", "F", "G", "H", "I", "J", "K", "L", "M", "N", "O", "P", "Q", "R", "S", "T", "U", "V", "W", "X", "Y", "Z">>
LowerLetters == <<"a", "b", "c", "d", "e", "f", "g", "h", "i", "j", "k", "l", "m", "n", "o", "p", "q", "r", "s", "t", "u", "v", "w", "x", "y", "z">>

IsUpper(c) == \E i \in DOMAIN UpperLetters : UpperLetters[i] = c

\* re.IGNORECASE on ASCII text: both sides are compared lower-cased.
Lower(c) ==
    IF IsUpper(c)
    THEN LowerLetters[CHOOSE i \in DOMAIN UpperLetters : UpperLetters[i] = c]
    ELSE c

LowerStr(s) == [i \in DOMAIN s |-> Lower(s[i])]

Contains(s, sub) ==
    \E i \in 0..(Len(s) - Len(sub)) : SubSeq(s, i + 1, i + Len(sub)) = sub

\* Series.str.contains('|'.join(indicators), case=False)
ContainsAny(s, indicators) ==
    \E j \in DOMAIN indicators : Contains(LowerStr(s), LowerStr(indicators[j]))

\* The group of the regular expression ^([A-Z]+): the longest leading run of
\* upper-case letters; the empty sequence stands for "no match" (NaN).
RECURSIVE UpperRun(_, _)
UpperRun(s, i) ==
    IF i <= Len(s) /\ IsUpper(s[i]) THEN <<s[i]>> \o UpperRun(s, i + 1) ELSE << >>

ExtractPrefix(s) == UpperRun(s, 1)

\* Series.isin(scottish_postcodes) of the extracted prefix; NaN is in no list.
PrefixIsin(s, postcodes) ==
    /\ ExtractPrefix(s) # << >>
    /\ \E j \in DOMAIN postcodes : postcodes[j] = ExtractPrefix(s)

scottish_indicators ==
    << <<"S", "c", "o", "t", "l", "a", "n", "d">>,
       <<"S", "C", "O", "T", "L", "A", "N", "D">>,
       <<"s", "c", "o", "t", "l", "a", "n", "d">>,
       <<"G", "l", "a", "s", "g", "o", "w">>,
       <<"E", "d", "i", "n", "b", "u", "r", "g", "h">>,
       <<"A", "b", "e", "r", "d", "e", "e", "n">>,
       <<"D", "u", "n", "d", "e", "e">>,
       <<"I", "n", "v", "e", "r", "n", "e", "s", "s">> >>

scottish_indicators_t3 ==
    << <<"S", "c", "o", "t", "l", "a", "n", "d">>,
       <<"S", "C", "O", "T", "L", "A", "N", "D">>,
       <<"s", "c", "o", "t", "l", "a", "n", "d">>,
       <<"G", "l", "a", "s", "g", "o", "w">>,
       <<"E", "d", "i", "n", "b", "u", "r", "g", "h">>,
       <<"A", "b", "e", "r", "d", "e", "e", "n">>,
       <<"D", "u", "n", "d", "e", "e">>,
       <<"I", "n", "v", "e", "r", "n", "e", "s", "s">>,
       <<"H", "i", "g", "h", "l", "a", "n", "d">>,
       <<"F", "i", "f", "e">>,
       <<"L", "o", "t", "h", "i", "a", "n">>,
       <<"S", "t", "r", "a", "t", "h", "c", "l", "y", "d", "e">>,
       <<"A", "r", "g", "y", "l", "l">>,
       <<"A", "y", "r", "s", "h", "i", "r", "e">>,
       <<"D", "u", "m", "f", "r", "i", "e", "s">>,
       <<"G", "a", "l", "l", "o", "w", "a", "y">>,
       <<"B", "o", "r", "d", "e", "r", "s">> >>

scottish_postcodes ==
    << <<"G">>,
       <<"E", "H">>,
       <<"A", "B">>,
       <<"D", "D">>,
       <<"I", "V">>,
       <<"K", "Y">>,
       <<"F", "K">> >>

scottish_postcodes_t3 ==
    << <<"G">>,
       <<"E", "H">>,
       <<"A", "B">>,
       <<"D", "D">>,
       <<"I", "V">>,
       <<"K", "Y">>,
       <<"F", "K">>,
       <<"K", "W">>,
       <<"P", "A">>,
       <<"P", "H">>,
       <<"T", "D">>,
       <<"D", "G">>,
       <<"M", "L">>,
       <<"K", "A">> >>

location_fields == << "Country", "County", "town__city", "Postcode" >>

location_fields_t3 ==
    << "Country", "County", "town__city", "Address Line 1", "Address Line 2",
       "Postcode" >>

-----------------------------------------------------------------------------
(* Values, records and DataFrames *)

\* A record field's value as json.loads delivers it, and a DataFrame cell.
StrV(s) == [k |-> "str", s |-> s]
Null == [k |-> "null"]                 \* JSON null, Python None
NaN == [k |-> "nan"]                   \* the cell of a key the record lacks
IntV(v) == [k |-> "int", v |-> v]       \* v tenths of a MW, a whole number of MW
FloatV(v) == [k |-> "float", v |-> v]   \* v tenths of a MW

IsNum(c) == c.k \in {"int", "float"}

Columns(records) == UNION { DOMAIN records[i] : i \in DOMAIN records }

CellOf(rec, col) == IF col \in DOMAIN rec THEN rec[col] ELSE NaN

\* The dtype pandas infers for a column of pd.DataFrame(list of dicts).
InferDtype(records, col) ==
    LET cells == { CellOf(records[i], col) : i \in DOMAIN records }
    IN  IF \E c \in cells : c.k = "str" THEN "object"
        ELSE IF \A c \in cells : ~IsNum(c) THEN "object"
        ELSE IF \A c \in cells : c.k = "int" THEN "int64"
        ELSE "float64"

\* pd.DataFrame(all_records): rows labelled 0..n-1, one dtype per column.
DataFrame(records) ==
    [ rows   |-> [ i \in 1..Len(records) |-> [ix |-> i - 1, rec |-> records[i]] ],
      dtypes |-> [ c \in Columns(records) |-> InferDtype(records, c) ] ]

EmptyDataFrame == DataFrame(<< >>)

\* df.empty: no row or no column.
IsEmpty(d) == Len(d.rows) = 0 \/ DOMAIN d.dtypes = {}

Labels(d) == { d.rows[i].ix : i \in DOMAIN d.rows }

RowAt(d, l) == d.rows[CHOOSE i \in DOMAIN d.rows : d.rows[i].ix = l]

RecordsOf(d) == [ i \in DOMAIN d.rows |-> d.rows[i].rec ]

\* Series.astype(str) of one cell of a location column.
AstypeStr(c) ==
    CASE c.k = "str"  -> c.s
      [] c.k = "null" -> <<"N", "o", "n", "e">>
      [] OTHER        -> <<"n", "a", "n">>

-----------------------------------------------------------------------------
(* Region classifier *)

\* a | b on two boolean Series: the result is indexed by the union of the
\* labels, and a label only one side has gives NaN, which becomes False.
OrAligned(a, b) ==
    [ l \in (DOMAIN a) \cup (DOMAIN b) |->
        IF l \in DOMAIN a /\ l \in DOMAIN b THEN a[l] \/ b[l] ELSE FALSE ]

\* FieldMask without .str.lower(): the cell is searched as it is written.
FieldMaskCased(d, field, indicators) ==
    [ l \in Labels(d) |->
        \E i \in 1..Len(indicators) :
            Contains(AstypeStr(CellOf(RowAt(d, l).rec, field)), indicators[i]) ]

FieldMask(d, field, indicators) ==
    [ l \in Labels(d) |->
        ContainsAny(AstypeStr(CellOf(RowAt(d, l).rec, field)), indicators) ]

PostcodeMask(d, postcodes) ==
    [ l \in Labels(d) |->
        PrefixIsin(AstypeStr(CellOf(RowAt(d, l).rec, "Postcode")), postcodes) ]

\* for field in location_fields: if field in df.columns: mask = mask | field_mask
RECURSIVE LocationLoop(_, _, _, _, _)
LocationLoop(d, fields, i, mask, indicators) ==
    IF i > Len(fields) THEN mask
    ELSE LocationLoop(d, fields, i + 1,
            IF fields[i] \in DOMAIN d.dtypes
            THEN OrAligned(mask, FieldMask(d, fields[i], indicators))
            ELSE mask,
            indicators)

IndexingError == [exc |-> "IndexingError"]

\* df[scotland_mask].copy(): the mask is re-indexed to the frame's labels and
\* the rows whose entry is True are kept, with their labels and dtypes.
BooleanIndex(d, mask) ==
    IF ~(Labels(d) \subseteq DOMAIN mask) THEN IndexingError
    ELSE LET Keep(r) == mask[r.ix]
         IN  [ rows |-> SelectSeq(d.rows, Keep), dtypes |-> d.dtypes ]

ScotlandMask(d, fields, indicators, postcodes) ==
    LET mask0 == [ l \in 0..(Len(d.rows) - 1) |-> FALSE ]
        mask1 == LocationLoop(d, fields, 1, mask0, indicators)
    IN  IF "Postcode" \in DOMAIN d.dtypes
        THEN OrAligned(mask1, PostcodeMask(d, postcodes))
        ELSE mask1

\* sse_analyzer.py
filter_scotland_data(d) ==
    IF IsEmpty(d) THEN d
    ELSE BooleanIndex(d, ScotlandMask(d, location_fields, scottish_indicators,
                                      scottish_postcodes))

\* test3.py: more fields, indicators and prefixes, and no guard for an empty frame
filter_scotland_data_t3(d) ==
    BooleanIndex(d, ScotlandMask(d, location_fields_t3, scottish_indicators_t3,
                                 scottish_postcodes_t3))

-----------------------------------------------------------------------------
(* Capacity aggregator *)

Digits == <<"0", "1", "2", "3", "4", "5", "6", "7", "8", "9">>

IsDigit(c) == \E i \in DOMAIN Digits : Digits[i] = c

DigitVal(c) == (CHOOSE i \in DOMAIN Digits : Digits[i] = c) - 1

AllDigits(s) == Len(s) > 0 /\ \A i \in DOMAIN s : IsDigit(s[i])

RECURSIVE DecimalVal(_)
DecimalVal(s) ==
    IF s = << >> THEN 0
    ELSE 10 * DecimalVal(SubSeq(s, 1, Len(s) - 1)) + DigitVal(s[Len(s)])

\* pd.to_numeric(..., errors='coerce') of one string: digits give an integer,
\* digits '.' digit a float, anything else (letters, a comma) NaN.  Text with
\* more than one fractional digit is outside the values modelled.
ParseNumeric(s) ==
    IF AllDigits(s) THEN IntV(10 * DecimalVal(s))
    ELSE IF /\ Len(s) >= 3
            /\ s[Len(s) - 1] = "."
            /\ AllDigits(SubSeq(s, 1, Len(s) - 2))
            /\ IsDigit(s[Len(s)])
         THEN FloatV(10 * DecimalVal(SubSeq(s, 1, Len(s) - 2)) + DigitVal(s[Len(s)]))
         ELSE NaN

\* One cell of pd.to_numeric(df[field_id], errors='coerce').
CoerceCell(c) ==
    CASE c.k = "str" -> ParseNumeric(c.s)
      [] IsNum(c)    -> c
      [] OTHER       -> NaN

\* The column after to_numeric, in row order.
NumericSeries(d, field) ==
    [ i \in DOMAIN d.rows |-> CoerceCell(CellOf(d.rows[i].rec, field)) ]

\* Its dtype: a numeric column keeps the dtype of the frame it came from; an
\* object column is int64 only if every cell of these rows parsed to an integer.
NumericDtype(d, field) ==
    IF d.dtypes[field] # "object" THEN d.dtypes[field]
    ELSE IF Len(d.rows) > 0 /\ \A i \in DOMAIN d.rows : NumericSeries(d, field)[i].k = "int"
         THEN "int64"
         ELSE "float64"

\* capacity_series.dropna(), as the values in tenths of a MW
ValidCapacities(d, field) ==
    LET ser == NumericSeries(d, field)
        Valid(c) == IsNum(c)
    IN  [ i \in DOMAIN SelectSeq(ser, Valid) |-> SelectSeq(ser, Valid)[i].v ]

RECURSIVE SeqSum(_)
SeqSum(s) == IF s = << >> THEN 0 ELSE s[1] + SeqSum(Tail(s))

SeqMin(s) == CHOOSE x \in { s[i] : i \in DOMAIN s } : \A i \in DOMAIN s : x <= s[i]
SeqMax(s) == CHOOSE x \in { s[i] : i \in DOMAIN s } : \A i \in DOMAIN s : x >= s[i]

\* A number of a result: its run-time type k and its value v.  A quotient also
\* carries the remainder of the division, so that it is exact.
Num(k, v) == [k |-> k, v |-> v]
PyInt(v) == Num("int", v)
Quotient(total, n) == [k |-> "float64", v |-> total \div n, rem |-> total % n]

\* FieldStat with the average taken over every row of the frame.
FieldStatAllRows(d, field) ==
    LET valid == ValidCapacities(d, field)
        dt    == NumericDtype(d, field)
        n     == Len(valid)
        total == SeqSum(valid)
    IN  [ total_mw      |-> Num(dt, total),
          count_records |-> PyInt(n),
          average_mw    |-> IF n > 0 THEN Quotient(total, Len(d.rows)) ELSE PyInt(0),
          min_mw        |-> IF n > 0 THEN Num(dt, SeqMin(valid)) ELSE PyInt(0),
          max_mw        |-> IF n > 0 THEN Num(dt, SeqMax(valid)) ELSE PyInt(0) ]

\* The stat of one category whose field is a column of the frame.
FieldStat(d, field) ==
    LET valid == ValidCapacities(d, field)
        dt    == NumericDtype(d, field)
        n     == Len(valid)
        total == SeqSum(valid)
    IN  [ total_mw      |-> Num(dt, total),
          count_records |-> PyInt(n),
          average_mw    |-> IF n > 0 THEN Quotient(total, n) ELSE PyInt(0),
          min_mw        |-> IF n > 0 THEN Num(dt, SeqMin(valid)) ELSE PyInt(0),
          max_mw        |-> IF n > 0 THEN Num(dt, SeqMax(valid)) ELSE PyInt(0) ]

\* The stat of a category whose field is no column of the frame.
MissingFieldStat ==
    [ total_mw |-> PyInt(0), count_records |-> PyInt(0), average_mw |-> PyInt(0) ]

capacity_fields ==
    [ accepted_registered_capacity  |-> "accepted_to_connect_registered_capacity__mw_",
      connected_registered_capacity |-> "already_connected_registered_capacity__mw_",
      maximum_export_capacity       |-> "maximum_export_capacity__mw_",
      maximum_import_capacity       |-> "maximum_import_capacity__mw_" ]

calculate_capacity_totals(d) ==
    [ name \in DOMAIN capacity_fields |->
        IF capacity_fields[name] \in DOMAIN d.dtypes
        THEN FieldStat(d, capacity_fields[name])
        ELSE MissingFieldStat ]

\* test3.py lines 200-208
capacity_fields_t3 ==
    [ accepted_registered_capacity  |-> "accepted_to_connect_registered_capacity__mw_",
      connected_registered_capacity |-> "already_connected_registered_capacity__mw_",
      maximum_export_capacity       |-> "maximum_export_capacity__mw_",
      maximum_import_capacity       |-> "maximum_import_capacity__mw_",
      energy_tech_1_capacity        |->
          "energy_source___energy_conversion_technology_1___registered_",
      energy_tech_2_capacity        |->
          "energy_source___energy_conversion_technology_2___registered_",
      energy_tech_3_capacity        |->
          "energy_source___energy_conversion_technology_3___registered_" ]

\* test3.py lines 194-246
calculate_capacity_totals_t3(d) ==
    [ name \in DOMAIN capacity_fields_t3 |->
        IF capacity_fields_t3[name] \in DOMAIN d.dtypes
        THEN FieldStat(d, capacity_fields_t3[name])
        ELSE MissingFieldStat ]

-----------------------------------------------------------------------------
(* Summary and snapshot *)

\* The type of a + b for Python and numpy numbers.
AddKind(a, b) ==
    IF "float64" \in {a, b} THEN "float64"
    ELSE IF "int64" \in {a, b} THEN "int64"
    ELSE IF "float" \in {a, b} THEN "float"
    ELSE "int"

RECURSIVE SumTotals(_, _)
SumTotals(totals, names) ==
    IF names = {} THEN PyInt(0)
    ELSE LET n    == CHOOSE x \in names : TRUE
             rest == SumTotals(totals, names \ {n})
         IN  Num(AddKind(rest.k, totals[n].total_mw.k), rest.v + totals[n].total_mw.v)

\* GrandTotal over 'average_mw' in place of 'total_mw'.
RECURSIVE SumAverages(_, _)
SumAverages(totals, names) ==
    IF names = {} THEN PyInt(0)
    ELSE LET n    == CHOOSE x \in names : TRUE
             rest == SumAverages(totals, names \ {n})
         IN  Num(AddKind(rest.k, totals[n].average_mw.k), rest.v + totals[n].average_mw.v)

GrandTotalOfAverages(totals) == SumAverages(totals, DOMAIN totals)

\* sum(totals[cap]['total_mw'] for cap in totals)
GrandTotal(totals) == SumTotals(totals, DOMAIN totals)

\* app.py lines 38-49; now is the value of datetime.now()
BuildSummary(totals, n, now) ==
    [ totals        |-> totals,
      records_count |-> PyInt(n),
      last_updated  |-> now,
      summary       |->
        [ accepted_capacity   |-> totals["accepted_registered_capacity"].total_mw,
          connected_capacity  |-> totals["connected_registered_capacity"].total_mw,
          max_export_capacity |-> totals["maximum_export_capacity"].total_mw,
          max_import_capacity |-> totals["maximum_import_capacity"].total_mw,
          grand_total         |-> GrandTotal(totals) ] ]

\* ZeroSummary with the record count of the frame that was last aggregated.
ZeroSummaryCounted(now) ==
    [ totals        |-> << >>,
      records_count |-> PyInt(1),
      last_updated  |-> now,
      summary       |->
        [ accepted_capacity   |-> PyInt(0),
          connected_capacity  |-> PyInt(0),
          max_export_capacity |-> PyInt(0),
          max_import_capacity |-> PyInt(0),
          grand_total         |-> PyInt(0) ] ]

\* app.py lines 64-75
ZeroSummary(now) ==
    [ totals        |-> << >>,
      records_count |-> PyInt(0),
      last_updated  |-> now,
      summary       |->
        [ accepted_capacity   |-> PyInt(0),
          connected_capacity  |-> PyInt(0),
          max_export_capacity |-> PyInt(0),
          max_import_capacity |-> PyInt(0),
          grand_total         |-> PyInt(0) ] ]

\* Every number of a summary.
NumbersOf(s) ==
    { s.records_count }
    \cup { s.summary[f] : f \in DOMAIN s.summary }
    \cup UNION { { s.totals[c][f] : f \in DOMAIN s.totals[c] } : c \in DOMAIN s.totals }

\* json.dump raises TypeError on a numpy integer; a numpy float is a Python
\* float and is written.
JsonSerializable(s) == \A x \in NumbersOf(s) : x.k # "int64"

\* A number as JSON text and back: an int is written without a fraction and
\* read as int; a float is written with one and read as float.
JsonNum(x) == [x EXCEPT !.k = IF x.k = "int" THEN "jint" ELSE "jreal"]
PyNum(x)   == [x EXCEPT !.k = IF x.k = "jint" THEN "int" ELSE "float"]

MapSummary(s, F(_)) ==
    [ totals        |-> [ c \in DOMAIN s.totals |->
                            [ f \in DOMAIN s.totals[c] |-> F(s.totals[c][f]) ] ],
      records_count |-> F(s.records_count),
      last_updated  |-> s.last_updated,
      summary       |-> [ f \in DOMAIN s.summary |-> F(s.summary[f]) ] ]

\* json.dump(capacity_data, f, indent=2): the document written
JsonDump(s) == MapSummary(s, JsonNum)

\* JsonLoad that drops the per-category statistics of the document.
JsonLoadSummaryOnly(doc) == [ MapSummary(doc, PyNum) EXCEPT !.totals = << >> ]

\* json.load(f): the object read
JsonLoad(doc) == MapSummary(doc, PyNum)

FileAbsent == [state |-> "absent"]
FileCorrupt == [state |-> "corrupt"]
FileValid(doc) == [state |-> "valid", doc |-> doc]

-----------------------------------------------------------------------------
(* Record fetcher *)

\* What one requests.get + response.json() can give:
\*   "exception"  requests.get raises (network, HTTP layer)
\*   "malformed"  response.json() raises, or the document has no result/records
\*   "nosuccess"  the success flag is false
\*   "noflag"     the success flag is missing
\*   "ok"         success is true and result.records is the list `records`
Failures == { "exception", "malformed", "nosuccess", "noflag" }
Failed(kind) == [kind |-> kind, records |-> << >>]
Ok(records) == [kind |-> "ok", records |-> records]

\* The statements after response.json() raise (KeyError, AttributeError).
Raises(r) == r.kind \in { "exception", "malformed" }

\* data.get('success') and data['result']['records']
HasRecords(r) == r.kind = "ok" /\ r.records # << >>

InList(x, s) == \E i \in DOMAIN s : s[i] = x

\* for record in records: if record not in all_records: all_records.append(record)
RECURSIVE AppendNew(_, _)
AppendNew(all, records) ==
    IF records = << >> THEN all
    ELSE AppendNew(IF InList(Head(records), all) THEN all ELSE Append(all, Head(records)),
                   Tail(records))

\* all_records.extend(records)
Extend(all, records) == all \o records

Min(a, b) == IF a <= b THEN a ELSE b

general_limit == 1000
term_limit == 500

scottish_terms == << "Scotland", "Glasgow", "Edinburgh", "Aberdeen" >>

\* GeneralQuery with 'limit': 1000, whatever the caller asks for.
GeneralQueryFixed(limit) == [q |-> "", limit |-> general_limit]

GeneralQuery(limit) == [q |-> "", limit |-> Min(limit, general_limit)]
TermQuery(term) == [q |-> term, limit |-> term_limit]

\* TermLoop with one try block around the whole loop: the first term whose
\* request raises ends the search.
RECURSIVE TermLoopAbort(_, _, _)
TermLoopAbort(i, st, resp) ==
    IF i > Len(scottish_terms) THEN st
    ELSE LET r   == resp[scottish_terms[i]]
             st1 == [ all    |-> IF HasRecords(r) THEN AppendNew(st.all, r.records)
                                 ELSE st.all,
                      issued |-> Append(st.issued, TermQuery(scottish_terms[i])) ]
         IN  IF Raises(r) THEN st1 ELSE TermLoopAbort(i + 1, st1, resp)

\* sse_analyzer.py lines 45-65: each term in its own try block
RECURSIVE TermLoop(_, _, _)
TermLoop(i, st, resp) ==
    IF i > Len(scottish_terms) THEN st
    ELSE LET r == resp[scottish_terms[i]]
         IN  TermLoop(i + 1,
                [ all    |-> IF HasRecords(r) THEN AppendNew(st.all, r.records) ELSE st.all,
                  issued |-> Append(st.issued, TermQuery(scottish_terms[i])) ],
                resp)

\* sse_analyzer.py lines 15-73.  resp gives the response to the general query
\* (key "") and to each term's query.
fetch_scotland_data(limit, resp) ==
    LET g   == resp[""]
        st0 == [ all    |-> IF HasRecords(g) THEN Extend(<< >>, g.records) ELSE << >>,
                 issued |-> << GeneralQuery(limit) >> ]
        st  == TermLoop(1, st0, resp)
    IN  [ df      |-> IF st.all # << >> THEN DataFrame(st.all) ELSE EmptyDataFrame,
          records |-> st.all,
          issued  |-> st.issued ]

-----------------------------------------------------------------------------
(* Record fetcher of test3.py *)

MaxTerms3 == 2   \* how many of the search terms of test3.py are modelled

scottish_terms_t3 ==
    << "Scotland", "Glasgow", "Edinburgh", "Aberdeen", "Dundee", "Inverness",
       "Highland", "Fife", "Lothian", "Strathclyde",
       "G1", "G2", "G3", "G4", "G5", "EH1", "EH2", "EH3", "EH4", "EH5",
       "AB1", "AB2", "AB3", "AB4", "AB5", "DD1", "DD2", "DD3", "DD4", "DD5",
       "IV1", "IV2", "IV3", "IV4", "IV5" >>

Terms3 == SubSeq(scottish_terms_t3, 1, Min(MaxTerms3, Len(scottish_terms_t3)))

search_fields_t3 == << "Country", "County", "town__city" >>

term_limit_t3 == 1000
batch_size == 1000

\* The requests test3.py can make.  A request the responses do not mention
\* fails with an exception.
TermSlot(term) == [s |-> "term", term |-> term, field |-> "", offset |-> 0]
FieldSlot(term, field) == [s |-> "field", term |-> term, field |-> field, offset |-> 0]
GeneralSlot == [s |-> "general", term |-> "", field |-> "", offset |-> 0]
PageSlot(offset) == [s |-> "page", term |-> "", field |-> "", offset |-> offset]

RespAt(resp, slot) == IF slot \in DOMAIN resp THEN resp[slot] ELSE Failed("exception")

\* test3.py lines 60-76: the field searches of one term.  They share the
\* term's try block, so the first one that raises ends them.
RECURSIVE FieldLoop(_, _, _, _)
FieldLoop(term, j, st, resp) ==
    IF j > Len(search_fields_t3) THEN st
    ELSE LET slot == FieldSlot(term, search_fields_t3[j])
             r    == RespAt(resp, slot)
             st1  == [ all    |-> IF HasRecords(r) THEN AppendNew(st.all, r.records)
                                  ELSE st.all,
                       issued |-> Append(st.issued, slot) ]
         IN  IF Raises(r) THEN st1 ELSE FieldLoop(term, j + 1, st1, resp)

\* test3.py lines 42-79
RECURSIVE TermLoop3(_, _, _)
TermLoop3(i, st, resp) ==
    IF i > Len(Terms3) THEN st
    ELSE LET slot == TermSlot(Terms3[i])
             r    == RespAt(resp, slot)
             st1  == [ all    |-> IF HasRecords(r) THEN Extend(st.all, r.records)
                                  ELSE st.all,
                       issued |-> Append(st.issued, slot) ]
         IN  TermLoop3(i + 1,
                       IF HasRecords(r) THEN FieldLoop(Terms3[i], 1, st1, resp) ELSE st1,
                       resp)

\* PageLoop without lines 139-140: a short batch does not end the paging.
RECURSIVE PageLoopToEmpty(_, _, _, _)
PageLoopToEmpty(limit, batch, st, resp) ==
    IF ~(Len(st.all) < limit) THEN st
    ELSE LET slot == PageSlot(st.offset)
             r    == RespAt(resp, slot)
             log  == Append(st.issued, slot)
         IN  IF ~HasRecords(r) THEN [st EXCEPT !.issued = log]
             ELSE PageLoopToEmpty(limit, batch,
                                  [ all    |-> Extend(st.all, r.records),
                                    offset |-> st.offset + batch,
                                    issued |-> log ],
                                  resp)

\* test3.py lines 119-144 with the batch size as a parameter
RECURSIVE PageLoop(_, _, _, _)
PageLoop(limit, batch, st, resp) ==
    IF ~(Len(st.all) < limit) THEN st
    ELSE LET slot == PageSlot(st.offset)
             r    == RespAt(resp, slot)
             log  == Append(st.issued, slot)
         IN  IF ~HasRecords(r) THEN [st EXCEPT !.issued = log]
             ELSE LET st1 == [ all    |-> Extend(st.all, r.records),
                               offset |-> st.offset + batch,
                               issued |-> log ]
                  IN  IF Len(r.records) < batch THEN st1
                      ELSE PageLoop(limit, batch, st1, resp)

FetchAllData(limit, batch, issued, resp) ==
    LET st == PageLoop(limit, batch, [all |-> << >>, offset |-> 0, issued |-> issued], resp)
    IN  [ df |-> DataFrame(st.all), records |-> st.all, issued |-> st.issued ]

\* test3.py lines 109-148
fetch_all_data(limit, issued, resp) == FetchAllData(limit, batch_size, issued, resp)

\* test3.py lines 15-107 with the batch size of the fallback as a parameter
FetchScotland3(limit, batch, resp) ==
    LET st0 == TermLoop3(1, [all |-> << >>, issued |-> << >>], resp)
        g   == RespAt(resp, GeneralSlot)
        st  == [ all    |-> IF HasRecords(g) THEN AppendNew(st0.all, g.records) ELSE st0.all,
                 issued |-> Append(st0.issued, GeneralSlot) ]
    IN  IF st.all # << >>
        THEN [ df |-> DataFrame(st.all), records |-> st.all, issued |-> st.issued ]
        ELSE FetchAllData(limit, batch, st.issued, resp)

\* test3.py lines 15-107
fetch_scotland_data_t3(limit, resp) == FetchScotland3(limit, batch_size, resp)

-----------------------------------------------------------------------------
(* The records and responses the model runs on *)

S_SCOTLAND == <<"S", "C", "O", "T", "L", "A", "N", "D">>
S_England == <<"E", "n", "g", "l", "a", "n", "d">>
S_Yorkshire == <<"Y", "o", "r", "k", "s", "h", "i", "r", "e">>
S_Fife == <<"F", "i", "f", "e">>
S_glasgow == <<"g", "l", "a", "s", "g", "o", "w">>
S_DundeeRd == <<"1", " ", "D", "u", "n", "d", "e", "e", " ", "R", "d">>
S_EH3 == <<"E", "H", "3", " ", "8", "D", "F">>
S_LS1 == <<"L", "S", "1">>
S_eh3 == <<"e", "h", "3", " ", "8", "d", "f">>
S_Gwent == <<"G", "w", "e", "n", "t">>
S_KW1 == <<"K", "W", "1", " ", "4", "A", "A">>
S_NA == <<"N", "/", "A">>
S_2p5 == <<"2", ".", "5">>

F_accepted == "accepted_to_connect_registered_capacity__mw_"
F_connected == "already_connected_registered_capacity__mw_"
F_export == "maximum_export_capacity__mw_"

\* In region by its postcode prefix only; every capacity a whole number.
RecEH ==
    [ x \in {"_id", "Postcode", F_accepted, F_connected} |->
        CASE x = "_id"       -> IntV(10)
          [] x = "Postcode"  -> StrV(S_EH3)
          [] x = F_accepted  -> IntV(100)
          [] x = F_connected -> IntV(200) ]

\* Out of region; one capacity is text that is no number.
RecYK ==
    [ x \in {"_id", "County", "Postcode", F_accepted, F_connected} |->
        CASE x = "_id"       -> IntV(20)
          [] x = "County"    -> StrV(S_Yorkshire)
          [] x = "Postcode"  -> StrV(S_LS1)
          [] x = F_accepted  -> StrV(S_NA)
          [] x = F_connected -> FloatV(25) ]

\* In region by its town; capacities are floats, one of them as text.
RecGL ==
    [ x \in {"_id", "Country", "town__city", F_connected, F_export} |->
        CASE x = "_id"        -> IntV(30)
          [] x = "Country"    -> Null
          [] x = "town__city" -> StrV(S_glasgow)
          [] x = F_connected  -> FloatV(15)
          [] x = F_export     -> StrV(S_2p5) ]

MaxRespLen == 2   \* records in one response

\* The lists over a set of records, without repetition (the rows of one
\* response are distinct), of at most n records.
RECURSIVE ListsOver(_, _)
ListsOver(U, n) ==
    IF n = 0 THEN { << >> }
    ELSE LET shorter == ListsOver(U, n - 1)
         IN  shorter \cup { Append(l, r) : l \in shorter, r \in U }

DistinctLists(U, n) ==
    { l \in ListsOver(U, n) : \A i, j \in DOMAIN l : i # j => l[i] # l[j] }

Responses(U) ==
    { Failed(kd) : kd \in Failures } \cup { Ok(l) : l \in DistinctLists(U, MaxRespLen) }

Limits == { 1, 5000 }

-----------------------------------------------------------------------------
(* Handler threads of app.py: the state before the first request *)

Threads == { "h1", "h2" }

AppIdle ==
    /\ capacity_data = None
    /\ last_updated = None
    /\ clock = 0
    /\ stampCall = << >>
    /\ calls = 0
    /\ queries = 0
    /\ pc = [t \in Threads |-> "idle"]
    /\ force = [t \in Threads |-> FALSE]
    /\ df = [t \in Threads |-> EmptyDataFrame]
    /\ cid = [t \in Threads |-> 0]
    /\ ret = [t \in Threads |-> None]
    /\ via = [t \in Threads |-> "none"]
    /\ atCall = [t \in Threads |-> [cache |-> None, queries |-> 0]]
    /\ raised = FALSE
    /\ game = [t \in Threads |-> None]

FetchIdle == fetchIn = None /\ fetchOut = None /\ fetchOut3 = None
FilterIdle ==
    filterIn = None /\ filterOut = None /\ filterOut3 = None /\ filterAgain = None
TotalsIdle == totalsIn = None /\ totalsOut = None

-----------------------------------------------------------------------------
(* One run of sse_analyzer.fetch_scotland_data on every combination of responses *)

FetchUniverse == { RecEH, RecYK }

FetchKeys == { "" } \cup { scottish_terms[i] : i \in DOMAIN scottish_terms }

QueryOf(key, limit) == IF key = "" THEN GeneralQuery(limit) ELSE TermQuery(key)

\* The server returns at most `limit` records.
FetchInputs ==
    { x \in [ limit : Limits, resp : [FetchKeys -> Responses(FetchUniverse)] ] :
        \A key \in FetchKeys : Len(x.resp[key].records) <= QueryOf(key, x.limit).limit }

InitFetch ==
    /\ AppIdle
    /\ file = FileAbsent
    /\ FilterIdle
    /\ TotalsIdle
    /\ fetchIn \in FetchInputs
    /\ fetchOut = None
    /\ fetchOut3 = None

RunFetch ==
    /\ fetchIn # None
    /\ fetchOut = None
    /\ fetchOut' = fetch_scotland_data(fetchIn.limit, fetchIn.resp)
    /\ UNCHANGED << fetchIn, fetchOut3 >>
    /\ UNCHANGED appVars
    /\ UNCHANGED filterVars
    /\ UNCHANGED totalsVars

SpecFetch == InitFetch /\ [][RunFetch]_vars

-----------------------------------------------------------------------------
(* One run of test3.fetch_scotland_data; all but a few requests fail *)

MaxLive3 == 2   \* requests of one run that do not fail with an exception

Slots3 ==
    { GeneralSlot, PageSlot(0), PageSlot(batch_size) }
    \cup { TermSlot(Terms3[i]) : i \in DOMAIN Terms3 }
    \cup { FieldSlot(Terms3[i], search_fields_t3[j]) :
             i \in DOMAIN Terms3, j \in DOMAIN search_fields_t3 }

Responses3 ==
    { Failed("malformed"), Failed("nosuccess") }
    \cup { Ok(l) : l \in DistinctLists(FetchUniverse, MaxRespLen) }

SlotLimit(slot, limit) ==
    IF slot.s = "general" THEN Min(limit, general_limit)
    ELSE IF slot.s = "page" THEN batch_size
    ELSE term_limit_t3

Fetch3Inputs ==
    { x \in [ limit : Limits,
              resp  : UNION { [S -> Responses3] :
                              S \in { S \in SUBSET Slots3 : Cardinality(S) <= MaxLive3 } } ] :
        \A slot \in DOMAIN x.resp : Len(x.resp[slot].records) <= SlotLimit(slot, x.limit) }

InitFetch3 ==
    /\ AppIdle
    /\ file = FileAbsent
    /\ FilterIdle
    /\ TotalsIdle
    /\ fetchIn \in Fetch3Inputs
    /\ fetchOut = None
    /\ fetchOut3 = None

RunFetch3 ==
    /\ fetchIn # None
    /\ fetchOut3 = None
    /\ fetchOut3' = fetch_scotland_data_t3(fetchIn.limit, fetchIn.resp)
    /\ UNCHANGED << fetchIn, fetchOut >>
    /\ UNCHANGED appVars
    /\ UNCHANGED filterVars
    /\ UNCHANGED totalsVars

SpecFetch3 == InitFetch3 /\ [][RunFetch3]_vars

-----------------------------------------------------------------------------
(* Claims about the fetchers *)

NoDuplicates(l) == \A i, j \in DOMAIN l : i # j => l[i] # l[j]

Elems(l) == { l[i] : i \in DOMAIN l }

\* C7: in the list returned by fetch_scotland_data of test3.py no two entries
\* are equal, whichever requests returned the same record.
C7_MergedOnce3 == fetchOut3 # None => NoDuplicates(fetchOut3.records)

\* The fixed sequence of requests of sse_analyzer.fetch_scotland_data.
FixedSequence(limit) ==
    [ i \in 1..(Len(scottish_terms) + 1) |->
        IF i = 1 THEN [q |-> "", limit |-> Min(limit, 1000)]
        ELSE [q |-> scottish_terms[i - 1], limit |-> 500] ]

\* C8: whichever requests fail, sse_analyzer.fetch_scotland_data issues the
\* general request and every term's request, in order; the list it returns
\* holds, once each, exactly the records of the requests that succeeded, and
\* it is empty only if no request delivered a record.
C8_FailuresSkipped ==
    fetchOut # None =>
        /\ fetchOut.issued = FixedSequence(fetchIn.limit)
        /\ Elems(fetchOut.records) =
               UNION { Elems(fetchIn.resp[key].records) :
                         key \in { x \in FetchKeys : fetchIn.resp[x].kind = "ok" } }
        /\ NoDuplicates(fetchOut.records)
        /\ (fetchOut.records = << >>) =
               (\A key \in FetchKeys :
                    fetchIn.resp[key].kind # "ok" \/ fetchIn.resp[key].records = << >>)
        /\ IsEmpty(fetchOut.df) = (fetchOut.records = << >>)
        /\ RecordsOf(fetchOut.df) = fetchOut.records

\* A run in which requests fail in three ways before and between two that
\* succeed and overlap.
C8_Witness ==
    /\ fetchOut # None
    /\ fetchIn.resp[""].kind = "exception"
    /\ fetchIn.resp["Scotland"].kind = "malformed"
    /\ fetchIn.resp["Glasgow"] = Ok(<< RecEH, RecYK >>)
    /\ fetchIn.resp["Edinburgh"].kind = "nosuccess"
    /\ fetchIn.resp["Aberdeen"] = Ok(<< RecYK >>)
    /\ fetchOut.records = << RecEH, RecYK >>

-----------------------------------------------------------------------------
(* One run of both classifiers on a frame of generated records *)

Absent == [k |-> "absent"]   \* the record has no such key

CountryValues == { Absent, StrV(S_SCOTLAND), StrV(S_England) }
CountyValues == { Absent, Null, StrV(S_Yorkshire), StrV(S_Fife) }
TownValues == { Absent, StrV(S_glasgow) }
AddressValues == { Absent, StrV(S_DundeeRd) }
PostcodeValues ==
    { Absent, Null, StrV(S_EH3), StrV(S_LS1), StrV(S_eh3), StrV(S_Gwent), StrV(S_KW1) }

MakeRecord(id, cells) ==
    [ x \in { "_id" } \cup { f \in DOMAIN cells : cells[f] # Absent } |->
        IF x = "_id" THEN IntV(id) ELSE cells[x] ]

LocationRecords ==
    { MakeRecord(10,
        [ f \in { "Country", "County", "town__city", "Address Line 1", "Postcode" } |->
            CASE f = "Country"        -> c
              [] f = "County"         -> y
              [] f = "town__city"     -> t
              [] f = "Address Line 1" -> a
              [] f = "Postcode"       -> p ]) :
        c \in CountryValues, y \in CountyValues, t \in TownValues,
        a \in AddressValues, p \in PostcodeValues }

\* A record with every location field, none of them in region.
RecElsewhere ==
    MakeRecord(20,
        [ f \in { "Country", "County", "town__city", "Address Line 1",
                  "Address Line 2", "Postcode" } |->
            CASE f = "Postcode" -> StrV(S_LS1)
              [] f = "County"   -> StrV(S_Yorkshire)
              [] OTHER          -> StrV(S_England) ])

\* The record alone, or after one that gives the frame every location column.
FilterInputs ==
    { DataFrame(<< r >>) : r \in LocationRecords }
    \cup { DataFrame(<< RecElsewhere, r >>) : r \in LocationRecords }

InitFilter ==
    /\ AppIdle
    /\ file = FileAbsent
    /\ FetchIdle
    /\ TotalsIdle
    /\ filterIn \in FilterInputs
    /\ filterOut = None
    /\ filterOut3 = None
    /\ filterAgain = None

RunFilter ==
    /\ filterIn # None
    /\ filterOut = None
    /\ filterOut' = filter_scotland_data(filterIn)
    /\ filterOut3' = filter_scotland_data_t3(filterIn)
    /\ UNCHANGED << filterIn, filterAgain >>
    /\ UNCHANGED appVars
    /\ UNCHANGED fetchVars
    /\ UNCHANGED totalsVars

\* scotland_df = filter_scotland_data(filter_scotland_data(df)): an exception
\* of the first call leaves no frame to classify.
RunFilterAgain ==
    /\ filterOut # None
    /\ filterAgain = None
    /\ filterAgain' = IF filterOut = IndexingError THEN IndexingError
                      ELSE filter_scotland_data(filterOut)
    /\ UNCHANGED << filterIn, filterOut, filterOut3 >>
    /\ UNCHANGED appVars
    /\ UNCHANGED fetchVars
    /\ UNCHANGED totalsVars

NextFilter ==
    \/ RunFilter
    \/ RunFilterAgain

SpecFilter == InitFilter /\ [][NextFilter]_vars

-----------------------------------------------------------------------------
(* Claims about the classifier *)

TextFields ==
    { "Country", "County", "town__city", "Address Line 1", "Address Line 2", "Postcode" }

IsLetter(c) == IsUpper(c) \/ \E i \in DOMAIN LowerLetters : LowerLetters[i] = c

\* The leading alphabetic run of a text.
RECURSIVE AlphaRun(_, _)
AlphaRun(s, i) ==
    IF i <= Len(s) /\ IsLetter(s[i]) THEN <<s[i]>> \o AlphaRun(s, i + 1) ELSE << >>

HasText(rec, f) == f \in DOMAIN rec /\ rec[f].k = "str"

\* Some field of `fields` holds text with an indicator in it, in any case.
IndicatorIn(rec, fields, indicators) ==
    \E f \in fields :
        /\ HasText(rec, f)
        /\ \E j \in DOMAIN indicators, i \in 1..Len(rec[f].s) :
              /\ i + Len(indicators[j]) - 1 <= Len(rec[f].s)
              /\ \A n \in 1..Len(indicators[j]) :
                    Lower(rec[f].s[i + n - 1]) = Lower(indicators[j][n])

\* The in-region test as the claim states it.
StatedInRegion(rec, indicators, postcodes) ==
    \/ IndicatorIn(rec, TextFields, indicators)
    \/ /\ HasText(rec, "Postcode")
       /\ \E j \in DOMAIN postcodes : postcodes[j] = AlphaRun(rec["Postcode"].s, 1)

\* The in-region test on the fields a classifier reads, with the prefix the
\* leading run of upper-case letters.
ReadInRegion(rec, fields, indicators, postcodes) ==
    \/ IndicatorIn(rec, fields, indicators)
    \/ /\ HasText(rec, "Postcode")
       /\ \E j \in DOMAIN postcodes, n \in 1..Len(rec["Postcode"].s) :
             /\ postcodes[j] = SubSeq(rec["Postcode"].s, 1, n)
             /\ \A i \in 1..n : IsUpper(rec["Postcode"].s[i])
             /\ (n < Len(rec["Postcode"].s) => ~IsUpper(rec["Postcode"].s[n + 1]))

Kept(out, rec) == out # IndexingError /\ \E i \in DOMAIN out.rows : out.rows[i].rec = rec

InputRecords == { filterIn.rows[i].rec : i \in DOMAIN filterIn.rows }

-----------------------------------------------------------------------------
(* app.py: get_capacity_data, run by the request handlers *)

MaxCalls == 2   \* calls of get_capacity_data in one run
MaxLive == 1    \* requests of one fetch that do not fail with an exception

fetch_limit == 5000

AppLists ==
    { << >>, << RecEH >>, << RecYK >>, << RecGL >>, << RecGL, RecYK >>,
      << RecYK, RecEH >>, << RecGL, RecEH >> }

AppOutcomes ==
    { Failed(kd) : kd \in Failures \ { "exception" } } \cup { Ok(l) : l \in AppLists }

\* The responses one fetch can meet: every request raises but those of `live`.
AppResponses ==
    UNION { { [ key \in FetchKeys |->
                  IF key \in live THEN g[key] ELSE Failed("exception") ] :
              g \in [live -> AppOutcomes] } :
            live \in { S \in SUBSET FetchKeys : Cardinality(S) <= MaxLive } }

\* A snapshot left by an earlier process, written at time 0.
OldSummary ==
    BuildSummary(calculate_capacity_totals(DataFrame(<< RecGL >>)), 1, 0)

Exception(name) == [exc |-> name]
IsException(x) == "exc" \in DOMAIN x

DateTime(t) == [k |-> "datetime", t |-> t]

Init ==
    /\ AppIdle
    /\ file \in { FileAbsent, FileCorrupt, FileValid(JsonDump(OldSummary)) }
    /\ FetchIdle
    /\ FilterIdle
    /\ TotalsIdle

\* A request reaches a handler: index, api_data, details and calculate_blackout
\* call with force_refresh False, refresh_data and api_refresh with True.
Call(t, f) ==
    /\ pc[t] = "idle"
    /\ calls < MaxCalls
    /\ calls' = calls + 1
    /\ cid' = [cid EXCEPT ![t] = calls + 1]
    /\ force' = [force EXCEPT ![t] = f]
    /\ atCall' = [atCall EXCEPT ![t] = [cache |-> capacity_data, queries |-> queries]]
    /\ via' = [via EXCEPT ![t] = "none"]
    /\ ret' = [ret EXCEPT ![t] = None]
    /\ df' = [df EXCEPT ![t] = EmptyDataFrame]
    /\ pc' = [pc EXCEPT ![t] = "check"]
    /\ UNCHANGED << capacity_data, last_updated, file, clock, stampCall, queries >>
    /\ UNCHANGED raised
    /\ game' = [game EXCEPT ![t] = None]
    /\ UNCHANGED pureVars

\* CheckCache with the test "if capacity_data is None": force_refresh is not read.
CheckCacheUnforced(t) ==
    /\ pc[t] = "check"
    /\ IF capacity_data = None
       THEN /\ pc' = [pc EXCEPT ![t] = "fetch"]
            /\ via' = via
       ELSE /\ pc' = [pc EXCEPT ![t] = "return"]
            /\ via' = [via EXCEPT ![t] = "cached"]
    /\ UNCHANGED << capacity_data, last_updated, file, clock, stampCall, calls,
                    queries, force, df, cid, ret, atCall >>
    /\ UNCHANGED raised
    /\ UNCHANGED game
    /\ UNCHANGED pureVars

\* line 21: if capacity_data is None or force_refresh
CheckCache(t) ==
    /\ pc[t] = "check"
    /\ IF capacity_data = None \/ force[t]
       THEN /\ pc' = [pc EXCEPT ![t] = "fetch"]
            /\ via' = via
       ELSE /\ pc' = [pc EXCEPT ![t] = "return"]
            /\ via' = [via EXCEPT ![t] = "cached"]
    /\ UNCHANGED << capacity_data, last_updated, file, clock, stampCall, calls,
                    queries, force, df, cid, ret, atCall >>
    /\ UNCHANGED raised
    /\ UNCHANGED game
    /\ UNCHANGED pureVars

\* lines 23-28: df = analyzer.fetch_scotland_data(limit=5000); if not df.empty
Fetch(t) ==
    /\ pc[t] = "fetch"
    /\ \E resp \in AppResponses :
          LET out == fetch_scotland_data(fetch_limit, resp)
          IN  /\ df' = [df EXCEPT ![t] = out.df]
              /\ queries' = queries + Len(out.issued)
              /\ pc' = [pc EXCEPT ![t] = IF ~IsEmpty(out.df) THEN "build" ELSE "load"]
    /\ UNCHANGED << capacity_data, last_updated, file, clock, stampCall, calls,
                    force, cid, ret, via, atCall >>
    /\ UNCHANGED raised
    /\ UNCHANGED game
    /\ UNCHANGED pureVars

\* ScotlandFrame without lines 31-33: the classified frame even when empty.
ScotlandFrameUnguarded(d) == filter_scotland_data(d)

\* lines 30-33: the frame the summary is computed over
ScotlandFrame(d) ==
    LET scotland_df == filter_scotland_data(d)
    IN  IF IsEmpty(scotland_df) THEN d ELSE scotland_df

\* lines 36-49
FreshSummary(d, now) ==
    BuildSummary(calculate_capacity_totals(ScotlandFrame(d)),
                 Len(ScotlandFrame(d).rows), now)

\* lines 30-49: filter, aggregate and assign capacity_data
Build(t) ==
    /\ pc[t] = "build"
    /\ capacity_data' = FreshSummary(df[t], clock + 1)
    /\ clock' = clock + 1
    /\ stampCall' = Append(stampCall, cid[t])
    /\ via' = [via EXCEPT ![t] = "fresh"]
    /\ pc' = [pc EXCEPT ![t] = "stamp"]
    /\ UNCHANGED << last_updated, file, calls, queries, force, df, cid, ret, atCall >>
    /\ UNCHANGED raised
    /\ UNCHANGED game
    /\ UNCHANGED pureVars

\* line 51: last_updated = datetime.now()
Stamp(t) ==
    /\ pc[t] = "stamp"
    /\ last_updated' = DateTime(clock + 1)
    /\ clock' = clock + 1
    /\ stampCall' = Append(stampCall, cid[t])
    /\ pc' = [pc EXCEPT ![t] = "open"]
    /\ UNCHANGED << capacity_data, file, calls, queries, force, df, cid, ret, via,
                    atCall >>
    /\ UNCHANGED raised
    /\ UNCHANGED game
    /\ UNCHANGED pureVars

\* line 54: open('data_cache.json', 'w') leaves an empty file
OpenForWrite(t) ==
    /\ pc[t] = "open"
    /\ file' = FileCorrupt
    /\ pc' = [pc EXCEPT ![t] = "dump"]
    /\ UNCHANGED << capacity_data, last_updated, clock, stampCall, calls, queries,
                    force, df, cid, ret, via, atCall >>
    /\ UNCHANGED raised
    /\ UNCHANGED game
    /\ UNCHANGED pureVars

\* line 55: json.dump(capacity_data, f, indent=2), of the global as it is now.
\* A numpy integer raises TypeError and leaves the part written so far; two
\* handlers writing at once may leave either document or neither.
Dump(t) ==
    /\ pc[t] = "dump"
    /\ IF JsonSerializable(capacity_data)
       THEN /\ \/ file' = FileValid(JsonDump(capacity_data))
               \/ /\ \E u \in Threads \ { t } : pc[u] = "dump"
                  /\ file' = FileCorrupt
            /\ pc' = [pc EXCEPT ![t] = "return"]
            /\ UNCHANGED << ret, raised >>
       ELSE /\ file' = FileCorrupt
            /\ ret' = [ret EXCEPT ![t] = Exception("TypeError")]
            /\ raised' = TRUE
            /\ pc' = [pc EXCEPT ![t] = "idle"]
    /\ UNCHANGED << capacity_data, last_updated, clock, stampCall, calls, queries,
                    force, df, cid, via, atCall >>
    /\ UNCHANGED game
    /\ UNCHANGED pureVars

\* Load with "except Exception": a snapshot that cannot be parsed is handled
\* as a missing one.
LoadAnyError(t) ==
    /\ pc[t] = "load"
    /\ IF file.state = "valid"
       THEN /\ capacity_data' = JsonLoad(file.doc)
            /\ via' = [via EXCEPT ![t] = "snapshot"]
            /\ pc' = [pc EXCEPT ![t] = "return"]
       ELSE /\ pc' = [pc EXCEPT ![t] = "zero"]
            /\ UNCHANGED << capacity_data, via >>
    /\ UNCHANGED << last_updated, file, clock, stampCall, calls, queries, force, df,
                    cid, ret, atCall >>
    /\ UNCHANGED raised
    /\ UNCHANGED game
    /\ UNCHANGED pureVars

\* lines 59-63: json.load of the snapshot; only FileNotFoundError is caught
Load(t) ==
    /\ pc[t] = "load"
    /\ CASE file.state = "absent" ->
              /\ pc' = [pc EXCEPT ![t] = "zero"]
              /\ UNCHANGED << capacity_data, ret, via, raised >>
         [] file.state = "corrupt" ->
              /\ ret' = [ret EXCEPT ![t] = Exception("JSONDecodeError")]
              /\ raised' = TRUE
              /\ via' = [via EXCEPT ![t] = "corrupt"]
              /\ pc' = [pc EXCEPT ![t] = "idle"]
              /\ UNCHANGED capacity_data
         [] file.state = "valid" ->
              /\ capacity_data' = JsonLoad(file.doc)
              /\ via' = [via EXCEPT ![t] = "snapshot"]
              /\ pc' = [pc EXCEPT ![t] = "return"]
              /\ UNCHANGED << ret, raised >>
    /\ UNCHANGED << last_updated, file, clock, stampCall, calls, queries, force, df,
                    cid, atCall >>
    /\ UNCHANGED game
    /\ UNCHANGED pureVars

\* Zero followed by lines 54-55: the all-zero summary is saved as well.
ZeroSaved(t) ==
    /\ pc[t] = "zero"
    /\ capacity_data' = ZeroSummary(clock + 1)
    /\ file' = FileValid(JsonDump(ZeroSummary(clock + 1)))
    /\ clock' = clock + 1
    /\ stampCall' = Append(stampCall, cid[t])
    /\ via' = [via EXCEPT ![t] = "zero"]
    /\ pc' = [pc EXCEPT ![t] = "return"]
    /\ UNCHANGED << last_updated, calls, queries, force, df, cid, ret, atCall, raised >>
    /\ UNCHANGED game
    /\ UNCHANGED pureVars

\* lines 64-75: the all-zero summary
Zero(t) ==
    /\ pc[t] = "zero"
    /\ capacity_data' = ZeroSummary(clock + 1)
    /\ clock' = clock + 1
    /\ stampCall' = Append(stampCall, cid[t])
    /\ via' = [via EXCEPT ![t] = "zero"]
    /\ pc' = [pc EXCEPT ![t] = "return"]
    /\ UNCHANGED << last_updated, file, calls, queries, force, df, cid, ret, atCall >>
    /\ UNCHANGED raised
    /\ UNCHANGED game
    /\ UNCHANGED pureVars

\* line 77: return capacity_data
Return(t) ==
    /\ pc[t] = "return"
    /\ ret' = [ret EXCEPT ![t] = capacity_data]
    /\ pc' = [pc EXCEPT ![t] = "idle"]
    /\ UNCHANGED << capacity_data, last_updated, file, clock, stampCall, calls,
                    queries, force, df, cid, via, atCall >>
    /\ UNCHANGED raised
    /\ UNCHANGED game
    /\ UNCHANGED pureVars

\* The process is started again: lines 12-13 run anew and the handlers start
\* afresh; the file stays.
Restart ==
    /\ \A t \in Threads : pc[t] = "idle"
    /\ capacity_data # None
    /\ calls < MaxCalls
    /\ capacity_data' = None
    /\ last_updated' = None
    /\ force' = [t \in Threads |-> FALSE]
    /\ df' = [t \in Threads |-> EmptyDataFrame]
    /\ cid' = [t \in Threads |-> 0]
    /\ ret' = [t \in Threads |-> None]
    /\ via' = [t \in Threads |-> "none"]
    /\ atCall' = [t \in Threads |-> [cache |-> None, queries |-> 0]]
    /\ raised' = FALSE
    /\ UNCHANGED << file, clock, stampCall, calls, queries, pc >>
    /\ game' = [u \in Threads |-> None]
    /\ UNCHANGED pureVars

\* lines 148-188: calculate_blackout. Powers are exact, in kW: the capacity is
\* held in tenths of a MW and a kettle draws kettle_power kW. The percentage
\* is the pair num/den, already clamped to 0..100.
kettle_power == 3

Kettles == { 0, 300, 400, 480, 500 }

\* line 163: min(100, max(0, (total_kettle_power / available_capacity) * 100)).
\* A Python zero raises ZeroDivisionError; a numpy zero divides to inf or nan,
\* and max(0, nan) is 0.
BlackoutPercentage(available, load_kw) ==
    LET avail_kw == available.v * 100
    IN  IF avail_kw = 0
        THEN IF available.k \in { "int", "float" }
             THEN Exception("ZeroDivisionError")
             ELSE IF load_kw = 0 THEN [num |-> 0, den |-> 1]
                                 ELSE [num |-> 100, den |-> 1]
        ELSE IF load_kw >= avail_kw THEN [num |-> 100, den |-> 1]
                                    ELSE [num |-> load_kw * 100, den |-> avail_kw]

\* lines 162 and 166-177: the status ladder
BlackoutStatus(available, load_kw, pct) ==
    IF available.v * 100 - load_kw <= 0 THEN "blackout"
    ELSE IF pct.num > 90 * pct.den THEN "critical"
    ELSE IF pct.num > 70 * pct.den THEN "warning"
    ELSE "normal"

\* lines 157-188, after get_capacity_data has returned game_data; jsonify
\* cannot encode a numpy integer (available_capacity is passed through).
calculate_blackout(game_data, kettle_count) ==
    LET available == game_data.summary.connected_capacity
        load_kw   == kettle_count * kettle_power
        pct       == BlackoutPercentage(available, load_kw)
    IN  IF IsException(pct) THEN pct
        ELSE IF available.k = "int64" THEN Exception("TypeError")
        ELSE [ kettle_count        |-> kettle_count,
               available_capacity  |-> available,
               blackout_percentage |-> pct,
               status              |-> BlackoutStatus(available, load_kw, pct) ]

\* The request was POST /api/calculate_blackout: the handler goes on from the
\* return of get_capacity_data() (line 156), or ends with what that raised.
Blackout(t) ==
    /\ pc[t] = "idle"
    /\ cid[t] > 0
    /\ ~force[t]
    /\ game[t] = None
    /\ \E kettle_count \in Kettles :
          game' = [game EXCEPT ![t] =
                     [ kettle_count |-> kettle_count,
                       out |-> IF IsException(ret[t]) THEN ret[t]
                               ELSE calculate_blackout(ret[t], kettle_count) ]]
    /\ UNCHANGED << capacity_data, last_updated, file, clock, stampCall, calls,
                    queries, pc, force, df, cid, ret, via, atCall, raised >>
    /\ UNCHANGED pureVars

Step(t) ==
    \/ \E f \in BOOLEAN : Call(t, f)
    \/ CheckCache(t)
    \/ Fetch(t)
    \/ Build(t)
    \/ Stamp(t)
    \/ OpenForWrite(t)
    \/ Dump(t)
    \/ Load(t)
    \/ Zero(t)
    \/ Return(t)

\* One request at a time.
Next ==
    \/ Step("h1")
    \/ Blackout("h1")
    \/ Restart

Spec == Init /\ [][Next]_vars

\* Two handler threads, interleaved at every access to the globals and the file.
NextConc ==
    \/ \E t \in Threads : Step(t)
    \/ Restart

SpecConc == Init /\ [][NextConc]_vars

-----------------------------------------------------------------------------
(* Claims about get_capacity_data *)

\* The call of handler t has ended; ret[t] is what it returned or raised.
Done(t) == pc[t] = "idle" /\ cid[t] > 0

\* The call of handler t ran the fetch.
Fetched(t) == atCall[t].cache = None \/ force[t]

\* A summary's content whatever the run-time types of its numbers.
PlainNum(x) == [v |-> x.v, rem |-> IF "rem" \in DOMAIN x THEN x.rem ELSE 0]
Plain(s) == MapSummary(s, PlainNum)

\* C1: on a cold cache, with no record fetched and a valid snapshot file, the
\* call with force_refresh False returns the content of the file, totals,
\* records_count, last_updated and summary alike, and caches that value.
C1_SnapshotReturned ==
    \A t \in Threads :
        ( /\ Done(t)
          /\ atCall[t].cache = None
          /\ ~force[t]
          /\ IsEmpty(df[t])
          /\ file.state = "valid" )
        => /\ ~IsException(ret[t])
           /\ ret[t] # None
           /\ Plain(ret[t]) = Plain(file.doc)
           /\ capacity_data = ret[t]

C1_Witness ==
    /\ Done("h1")
    /\ via["h1"] = "snapshot"
    /\ atCall["h1"].cache = None
    /\ ~force["h1"]
    /\ queries = Len(scottish_terms) + 1
    /\ file = FileValid(JsonDump(OldSummary))
    /\ ret["h1"].summary.connected_capacity.v = 15
    /\ capacity_data = ret["h1"]

IsZero(x) == x.v = 0

\* C2: with no record fetched and no snapshot file the call returns a summary
\* whose grand total, record count and four category totals are 0, and raises
\* nothing.
C2_ZeroSummary ==
    \A t \in Threads :
        ( Done(t) /\ Fetched(t) /\ IsEmpty(df[t]) /\ file.state = "absent" )
        => /\ ~IsException(ret[t])
           /\ ret[t] # None
           /\ IsZero(ret[t].summary.grand_total)
           /\ IsZero(ret[t].records_count)
           /\ IsZero(ret[t].summary.accepted_capacity)
           /\ IsZero(ret[t].summary.connected_capacity)
           /\ IsZero(ret[t].summary.max_export_capacity)
           /\ IsZero(ret[t].summary.max_import_capacity)

C2_Witness ==
    /\ Done("h1")
    /\ via["h1"] = "zero"
    /\ file = FileAbsent
    /\ queries = Len(scottish_terms) + 1
    /\ ret["h1"].summary.grand_total = PyInt(0)
    /\ ret["h1"].totals = << >>

\* C3: whatever the requests give and whatever the state of the snapshot
\* file, get_capacity_data returns a summary and never raises.
C3_NeverRaises == \A t \in Threads : ~IsException(ret[t])

\* C4: with no record fetched and a snapshot file that cannot be parsed, the
\* parse error leaves get_capacity_data; no all-zero summary is put in its
\* place and the cache keeps the value it had when the call started.
C4_CorruptPropagates ==
    \A t \in Threads :
        ( Done(t) /\ Fetched(t) /\ IsEmpty(df[t]) /\ file.state = "corrupt" )
        => /\ ret[t] = Exception("JSONDecodeError")
           /\ capacity_data = atCall[t].cache

\* A forced refresh over a filled cache meets a corrupt snapshot.
C4_Witness ==
    /\ Done("h1")
    /\ force["h1"]
    /\ IsEmpty(df["h1"])
    /\ file = FileCorrupt
    /\ ret["h1"] = Exception("JSONDecodeError")
    /\ atCall["h1"].cache # None
    /\ capacity_data = atCall["h1"].cache

\* C5: with the cache filled, a call with force_refresh False issues no
\* request and returns the cached summary as it is; a call with force_refresh
\* True issues every request of the fetch again and, when records come back,
\* replaces the cache by the summary computed from them.
C5_CacheAndRefresh ==
    \A t \in Threads :
        Done(t) =>
            /\ (atCall[t].cache # None /\ ~force[t]) =>
                  /\ queries = atCall[t].queries
                  /\ ret[t] = atCall[t].cache
                  /\ capacity_data = atCall[t].cache
            /\ force[t] =>
                  /\ queries = atCall[t].queries + Len(scottish_terms) + 1
                  /\ ~IsEmpty(df[t]) =>
                        /\ capacity_data.totals =
                               calculate_capacity_totals(ScotlandFrame(df[t]))
                        /\ capacity_data.last_updated > 0
                        /\ stampCall[capacity_data.last_updated] = cid[t]
                        /\ ~IsException(ret[t]) => ret[t] = capacity_data

\* A forced refresh replaces a filled cache.
C5_Witness ==
    /\ Done("h1")
    /\ force["h1"]
    /\ atCall["h1"].cache # None
    /\ via["h1"] = "fresh"
    /\ ret["h1"] = capacity_data
    /\ Plain(capacity_data) # Plain(atCall["h1"].cache)

\* The call that produced a timestamp; 0 for one of an earlier process.
CallOf(tick) == IF tick \in DOMAIN stampCall THEN stampCall[tick] ELSE 0

\* C6: whenever a handler is about to read the cache, capacity_data comes
\* with the last_updated of the same cycle: never a summary without its
\* timestamp, never one with the timestamp of another cycle.
C6_PairAtomic ==
    \A t \in Threads :
        pc[t] = "return" =>
            /\ capacity_data # None
            /\ last_updated # None
            /\ CallOf(last_updated.t) = CallOf(capacity_data.last_updated)

\* The records of a frame the classifier of sse_analyzer.py has to keep, and
\* the records the summary is to be computed over.
InRegionRecords(d) ==
    { rec \in Elems(RecordsOf(d)) :
        ReadInRegion(rec, { "Country", "County", "town__city", "Postcode" },
                     scottish_indicators, scottish_postcodes) }

Aggregated(d) ==
    IF InRegionRecords(d) = {} THEN Elems(RecordsOf(d)) ELSE InRegionRecords(d)

HasCapacity(rec, field) == IsNum(CoerceCell(CellOf(rec, field)))

RECURSIVE CapacitySum(_, _)
CapacitySum(recs, field) ==
    IF recs = {} THEN 0
    ELSE LET rec == CHOOSE x \in recs : TRUE
         IN  (IF HasCapacity(rec, field) THEN CoerceCell(CellOf(rec, field)).v ELSE 0)
             + CapacitySum(recs \ { rec }, field)

\* C10: a summary built from a fetch that returned records is computed over
\* the classified records when there are any and over all the fetched records
\* otherwise; records_count is the number of records aggregated, never 0.
C10_NeverEmptySummary ==
    \A t \in Threads :
      /\ (Done(t) /\ Fetched(t) /\ ~IsEmpty(df[t])) => via[t] = "fresh"
      /\ via[t] = "fresh" =>
            /\ ~IsEmpty(df[t])
            /\ capacity_data.records_count.v = Cardinality(Aggregated(df[t]))
            /\ capacity_data.records_count.v > 0
            /\ \A name \in DOMAIN capacity_fields :
                  /\ capacity_data.totals[name].total_mw.v =
                         CapacitySum(Aggregated(df[t]), capacity_fields[name])
                  /\ capacity_data.totals[name].count_records.v =
                         Cardinality({ rec \in Aggregated(df[t]) :
                                         HasCapacity(rec, capacity_fields[name]) })

\* Two records fetched, one of them in region: the summary counts that one.
C10_Witness ==
    /\ Done("h1")
    /\ via["h1"] = "fresh"
    /\ RecordsOf(df["h1"]) = << RecGL, RecYK >>
    /\ ret["h1"].records_count = PyInt(1)
    /\ ret["h1"].summary.connected_capacity = Num("float64", 15)
    /\ file = FileValid(JsonDump(ret["h1"]))

\* No record fetched is in region: the summary counts them all.
C10_WitnessFallback ==
    /\ Done("h1")
    /\ via["h1"] = "fresh"
    /\ RecordsOf(df["h1"]) = << RecYK >>
    /\ ret["h1"].records_count = PyInt(1)

-----------------------------------------------------------------------------
(* One run of both aggregators on a frame of generated records *)

S_12 == <<"1", "2">>
S_1234p5 == <<"1", ",", "2", "3", "4", ".", "5">>

MaxRows == 2   \* rows of the frame aggregated

AcceptedValues ==
    { Absent, Null, IntV(100), IntV(50), FloatV(25), StrV(S_NA), StrV(S_2p5),
      StrV(S_12), StrV(S_1234p5) }
ConnectedValues == { Absent, IntV(200), StrV(S_NA) }

CapacityRecords ==
    { MakeRecord(0, [ f \in { F_accepted, F_connected } |->
                        IF f = F_accepted THEN a ELSE c ]) :
        a \in AcceptedValues, c \in ConnectedValues }

\* Row i of a frame has _id i.
Numbered(l) == [ i \in DOMAIN l |-> [ l[i] EXCEPT !["_id"] = IntV(i) ] ]

TotalsInputs ==
    { DataFrame(Numbered(l)) : l \in ListsOver(CapacityRecords, MaxRows) \ { << >> } }

InitTotals ==
    /\ AppIdle
    /\ file = FileAbsent
    /\ FetchIdle
    /\ FilterIdle
    /\ totalsIn \in TotalsInputs
    /\ totalsOut = None

RunTotals ==
    /\ totalsIn # None
    /\ totalsOut = None
    /\ totalsOut' = [ totals  |-> calculate_capacity_totals(totalsIn),
                      totals3 |-> calculate_capacity_totals_t3(totalsIn) ]
    /\ UNCHANGED totalsIn
    /\ UNCHANGED appVars
    /\ UNCHANGED fetchVars
    /\ UNCHANGED filterVars

SpecTotals == InitTotals /\ [][RunTotals]_vars

-----------------------------------------------------------------------------
(* Claims about calculate_capacity_totals *)

\* The records of the frame whose value of the field is present and a number.
WithCapacity(d, field) == { rec \in Elems(RecordsOf(d)) : HasCapacity(rec, field) }

\* stat is the arithmetic of the valid values of the field in frame d.
StatOf(stat, d, field) ==
    LET n == Cardinality(WithCapacity(d, field))
    IN  /\ stat.total_mw.v = CapacitySum(Elems(RecordsOf(d)), field)
        /\ stat.count_records.v = n
        /\ n > 0 => /\ stat.average_mw.v * n + stat.average_mw.rem = stat.total_mw.v
                    /\ stat.average_mw.rem \in 0..(n - 1)
        /\ n = 0 => stat.average_mw = PyInt(0)

\* C11: in every stat, total_mw is the sum of the values of the field that
\* are present and numbers, count_records is how many there are, average_mw
\* is total_mw / count_records when there is one and 0 when there is none.
C11_StatArithmetic ==
    totalsOut # None =>
        /\ \A name \in DOMAIN capacity_fields :
              StatOf(totalsOut.totals[name], totalsIn, capacity_fields[name])
        /\ \A name \in DOMAIN capacity_fields_t3 :
              StatOf(totalsOut.totals3[name], totalsIn, capacity_fields_t3[name])

\* A float and a number written as text are summed, text that is no number
\* is left out of a column of three cells, and a column of no number gives 0.
C11_Witness ==
    /\ totalsOut # None
    /\ RecordsOf(totalsIn) =
         Numbered(<< MakeRecord(0, [ f \in { F_accepted, F_connected } |->
                        IF f = F_accepted THEN FloatV(25) ELSE StrV(S_NA) ]),
                     MakeRecord(0, [ f \in { F_accepted, F_connected } |->
                        IF f = F_accepted THEN StrV(S_2p5) ELSE StrV(S_NA) ]) >>)
    /\ totalsOut.totals["accepted_registered_capacity"].total_mw = Num("float64", 50)
    /\ totalsOut.totals["accepted_registered_capacity"].count_records = PyInt(2)
    /\ totalsOut.totals["accepted_registered_capacity"].average_mw.v = 25
    /\ totalsOut.totals["connected_registered_capacity"].count_records = PyInt(0)
    /\ totalsOut.totals["connected_registered_capacity"].average_mw = PyInt(0)

\* Text without its thousands separators.
WithoutCommas(s) == LET NoComma(c) == c # "," IN SelectSeq(s, NoComma)

\* The number a capacity cell stands for when separators are accepted.
Normalised(c) == IF c.k = "str" THEN ParseNumeric(WithoutCommas(c.s)) ELSE CoerceCell(c)

RECURSIVE NormalisedSum(_, _)
NormalisedSum(recs, field) ==
    IF recs = {} THEN 0
    ELSE LET rec == CHOOSE x \in recs : TRUE
             c   == Normalised(CellOf(rec, field))
         IN  (IF IsNum(c) THEN c.v ELSE 0) + NormalisedSum(recs \ { rec }, field)

\* C12: a capacity written with thousands separators, "1,234.5", counts as
\* 1234.5: every category counts and sums the values that are numbers once
\* the separators are taken out.
C12_SeparatorsAccepted ==
    totalsOut # None =>
        \A name \in DOMAIN capacity_fields :
            LET recs == Elems(RecordsOf(totalsIn))
                f    == capacity_fields[name]
            IN  /\ totalsOut.totals[name].count_records.v =
                       Cardinality({ rec \in recs : IsNum(Normalised(CellOf(rec, f))) })
                /\ totalsOut.totals[name].total_mw.v = NormalisedSum(recs, f)

StatMembers == { "total_mw", "count_records", "average_mw", "min_mw", "max_mw" }

\* C13: every stat has the five members total, count, average, min and max;
\* the stat of a category whose field is no column of the data, and of one
\* with no valid value, has all five and all five are 0.
C13_CompleteStat ==
    totalsOut # None =>
        \A out \in { totalsOut.totals, totalsOut.totals3 } :
            \A name \in DOMAIN out :
                /\ DOMAIN out[name] = StatMembers
                /\ out[name].count_records.v = 0 =>
                       \A m \in StatMembers : out[name][m].v = 0

-----------------------------------------------------------------------------
(* Claims about the summary and its snapshot *)

\* C14: in a summary built from fetched records, grand_total is the sum of
\* total_mw over the categories of totals, those of a missing field included,
\* and so the sum of every valid capacity of the records aggregated.
C14_GrandTotal ==
    \A t \in Threads :
        via[t] = "fresh" =>
            /\ DOMAIN capacity_data.totals = DOMAIN capacity_fields
            /\ capacity_data.summary.grand_total.v =
                   capacity_data.totals["accepted_registered_capacity"].total_mw.v
                   + capacity_data.totals["connected_registered_capacity"].total_mw.v
                   + capacity_data.totals["maximum_export_capacity"].total_mw.v
                   + capacity_data.totals["maximum_import_capacity"].total_mw.v
            /\ capacity_data.summary.grand_total.v =
                   CapacitySum(Aggregated(df[t]), F_accepted)
                   + CapacitySum(Aggregated(df[t]), F_connected)
                   + CapacitySum(Aggregated(df[t]), F_export)
                   + CapacitySum(Aggregated(df[t]), "maximum_import_capacity__mw_")

\* Two records aggregated: totals 10, 21.5 and 2.5 MW and a category with no
\* field give the grand total 34 MW.
C14_Witness ==
    /\ Done("h1")
    /\ via["h1"] = "fresh"
    /\ RecordsOf(df["h1"]) = << RecGL, RecEH >>
    /\ ret["h1"].totals["accepted_registered_capacity"].total_mw.v = 100
    /\ ret["h1"].totals["connected_registered_capacity"].total_mw.v = 215
    /\ ret["h1"].totals["connected_registered_capacity"].count_records.v = 2
    /\ ret["h1"].totals["maximum_export_capacity"].total_mw.v = 25
    /\ ret["h1"].totals["maximum_import_capacity"] = MissingFieldStat
    /\ ret["h1"].summary.grand_total = Num("float64", 340)

\* C15: when a cycle that built a summary S from fetched records has ended,
\* the snapshot file holds a document, and loading it gives S again: the
\* same totals, record count, timestamp and summary values.
C15_RoundTrip ==
    \A t \in Threads :
        (Done(t) /\ via[t] = "fresh") =>
            /\ file.state = "valid"
            /\ Plain(JsonLoad(file.doc)) = Plain(capacity_data)
            /\ JsonLoad(file.doc).last_updated = capacity_data.last_updated

-----------------------------------------------------------------------------
(* Classifying twice *)

\* C16: classifying the classified frame once more succeeds and returns the
\* same records, and the frame given to the classifier is as it was.
C16_Idempotent ==
    filterAgain # None =>
        /\ filterAgain # IndexingError
        /\ RecordsOf(filterAgain) = RecordsOf(filterOut)
        /\ filterIn \in FilterInputs

-----------------------------------------------------------------------------
(* One run of test3.fetch_scotland_data with small batches, so that the     *)
(* pagination fallback meets full batches and reaches its limit             *)

MaxPages == 3   \* offsets at which the server has an answer

Batches == { 1, 2 }
PageLimits == { 0, 2, 3, fetch_limit }

\* A page is refused, or holds up to `batch` rows.
PageRows == << RecEH, RecYK >>
PageOutcomes(batch) ==
    { Failed("nosuccess") } \cup { Ok(SubSeq(PageRows, 1, n)) : n \in 0..batch }

SearchOutcomes == { Failed("nosuccess"), Ok(<< RecEH >>) }

\* The first term's search and the general sample are answered, every other
\* search raises; the pages at the first MaxPages offsets are answered or raise.
\* The general sample has no more rows than its request asks for.
AllPageInputs ==
    UNION { { [ limit |-> limit, batch |-> batch, resp |-> search @@ pages ] :
                limit \in PageLimits,
                search \in [ { TermSlot(Terms3[1]), GeneralSlot } -> SearchOutcomes ],
                pages \in UNION { [ { PageSlot(k * batch) : k \in K } -> PageOutcomes(batch) ] :
                                  K \in SUBSET (0..(MaxPages - 1)) } } :
            batch \in Batches }

PageInputs ==
    { x \in AllPageInputs :
        Len(x.resp[GeneralSlot].records) <= Min(x.limit, general_limit) }

InitPages ==
    /\ AppIdle
    /\ file = FileAbsent
    /\ FilterIdle
    /\ TotalsIdle
    /\ fetchIn \in PageInputs
    /\ fetchOut = None
    /\ fetchOut3 = None

\* The same responses as sse_analyzer.fetch_scotland_data meets them.
ResponsesByTerm(resp) ==
    [ key \in FetchKeys |->
        IF key = "" THEN RespAt(resp, GeneralSlot) ELSE RespAt(resp, TermSlot(key)) ]

RunPages ==
    /\ fetchIn # None
    /\ fetchOut3 = None
    /\ fetchOut3' = FetchScotland3(fetchIn.limit, fetchIn.batch, fetchIn.resp)
    /\ fetchOut' = fetch_scotland_data(fetchIn.limit, ResponsesByTerm(fetchIn.resp))
    /\ UNCHANGED fetchIn
    /\ UNCHANGED appVars
    /\ UNCHANGED filterVars
    /\ UNCHANGED totalsVars

SpecPages == InitPages /\ [][RunPages]_vars

-----------------------------------------------------------------------------
(* Claims about the pagination fallback *)

IsPage(slot) == slot.s = "page"

\* The page requests of the run, in the order issued, and the others.
PagesIssued == SelectSeq(fetchOut3.issued, IsPage)
SearchesIssued == { fetchOut3.issued[i] : i \in DOMAIN fetchOut3.issued } \ Elems(PagesIssued)

\* Page i ends the paging: the limit is reached with it, or it is short,
\* empty, refused or failed.
EndsPaging(i) ==
    LET r == RespAt(fetchIn.resp, PagesIssued[i])
    IN  \/ ~HasRecords(r)
        \/ Len(r.records) < fetchIn.batch
        \/ i * fetchIn.batch >= fetchIn.limit

RECURSIVE PagesConcat(_)
PagesConcat(i) ==
    IF i = 0 THEN << >>
    ELSE LET r == RespAt(fetchIn.resp, PagesIssued[i])
         IN  PagesConcat(i - 1) \o (IF HasRecords(r) THEN r.records ELSE << >>)

CeilDiv(a, b) == (a + b - 1) \div b

\* C17: the pagination fallback runs only when no search and no general
\* sample gave a record; it asks for the offsets 0, batch, 2*batch, ..., each
\* once, stops with the first page that reaches the limit or is short, empty,
\* refused or failed, and so makes at most ceil(limit / batch) requests.
C17_PagingBounded ==
    fetchOut3 # None =>
        LET n == Len(PagesIssued)
        IN  /\ n > 0 => /\ \A slot \in SearchesIssued : ~HasRecords(RespAt(fetchIn.resp, slot))
                        /\ fetchOut3.records = PagesConcat(n)
                        /\ EndsPaging(n)
            /\ \A i \in 1..n : PagesIssued[i] = PageSlot((i - 1) * fetchIn.batch)
            /\ \A i \in 1..(n - 1) : ~EndsPaging(i)
            /\ n <= CeilDiv(fetchIn.limit, fetchIn.batch)
            /\ (n = 0 /\ fetchIn.limit > 0) => fetchOut3.records # << >>

\* Batches of 2 and a limit of 3: two full pages, at offsets 0 and 2, and the
\* paging stops with the limit reached.
C17_Witness ==
    /\ fetchOut3 # None
    /\ fetchIn.batch = 2
    /\ fetchIn.limit = 3
    /\ PagesIssued = << PageSlot(0), PageSlot(2) >>
    /\ Len(fetchOut3.records) = 4
    /\ PageSlot(4) \in DOMAIN fetchIn.resp

\* A short page ends the paging before the limit.
C17_WitnessShort ==
    /\ fetchOut3 # None
    /\ fetchIn.batch = 2
    /\ fetchIn.limit = fetch_limit
    /\ PagesIssued = << PageSlot(0), PageSlot(2) >>
    /\ Len(fetchOut3.records) = 3
    /\ PageSlot(4) \in DOMAIN fetchIn.resp

-----------------------------------------------------------------------------
(* Cache and snapshot *)

\* The snapshot is a document and loading it gives the cached summary.
CacheIsSnapshot ==
    /\ file.state = "valid"
    /\ Plain(JsonLoad(file.doc)) = Plain(capacity_data)
    /\ JsonLoad(file.doc).last_updated = capacity_data.last_updated

\* A step that changes the file is a step of a handler that fetched records.
WrittenAfterFetch ==
    file' # file =>
        \E t \in Threads : pc[t] \in { "open", "dump" } /\ ~IsEmpty(df[t])

\* C18: while every call has returned normally, after a call the snapshot
\* file, if there is one, holds the cached summary; the file is written only
\* in a cycle whose fetch returned records, and never holds the all-zero
\* summary.
C18_CacheMatchesSnapshot ==
    /\ [](\A t \in Threads :
            (Done(t) /\ ~raised /\ file.state # "absent") => CacheIsSnapshot)
    /\ [](file.state = "valid" => ~IsZero(file.doc.records_count))
    /\ [][WrittenAfterFetch]_vars

\* A forced refresh that fetched nothing has loaded the snapshot the call
\* before it wrote.
C18_Witness ==
    /\ Done("h1")
    /\ ~raised
    /\ force["h1"]
    /\ via["h1"] = "snapshot"
    /\ file.state = "valid"
    /\ file # FileValid(JsonDump(OldSummary))
    /\ CacheIsSnapshot

\* The all-zero summary is cached and no file has been written.
C18_WitnessZero ==
    /\ Done("h1")
    /\ via["h1"] = "zero"
    /\ file = FileAbsent
    /\ IsZero(capacity_data.records_count)

-----------------------------------------------------------------------------
(* Claims about the number of records fetched *)

\* C19 as stated: neither fetcher, the pagination fallback included, returns
\* more records than the limit it was called with.
C19_WithinLimit ==
    fetchOut3 # None =>
        /\ Len(fetchOut.records) <= fetchIn.limit
        /\ Len(fetchOut3.records) <= fetchIn.limit

\* The records some term search of sse_analyzer.py returned.
TermRecords ==
    UNION { Elems(ResponsesByTerm(fetchIn.resp)[scottish_terms[i]].records) :
              i \in DOMAIN scottish_terms }

\* C19 amended: the general sample is requested with the limit
\* min(limit, 1000) and every term search with the limit 500, whatever the
\* caller's limit; at most min(limit, 1000) of the records returned come from
\* no term search; and the pagination fallback stops with the first page that
\* brings the count to the limit, so it returns less than limit + batch.
C19_RequestsCapped ==
    fetchOut3 # None =>
        /\ fetchOut.issued[1].q = ""
        /\ fetchOut.issued[1].limit =
               (IF fetchIn.limit <= 1000 THEN fetchIn.limit ELSE 1000)
        /\ \A i \in 2..Len(fetchOut.issued) :
               fetchOut.issued[i].q = scottish_terms[i - 1] /\ fetchOut.issued[i].limit = 500
        /\ Cardinality(Elems(fetchOut.records) \ TermRecords) <= fetchOut.issued[1].limit
        /\ Len(PagesIssued) > 0 =>
               /\ Len(fetchOut3.records) < fetchIn.limit + fetchIn.batch
               /\ Len(PagesConcat(Len(PagesIssued) - 1)) < fetchIn.limit

\* Called with the limit 0, the fetcher returns the record a term search found.
C19_Witness ==
    /\ fetchOut3 # None
    /\ fetchIn.limit = 0
    /\ fetchOut.issued[1] = [q |-> "", limit |-> 0]
    /\ fetchOut.records = << RecEH >>
    /\ fetchOut3.records = << RecEH >>

\* Pages of 2 and the limit 3: the fallback returns 4 records.
C19_WitnessPages ==
    /\ fetchOut3 # None
    /\ fetchIn.limit = 3
    /\ fetchIn.batch = 2
    /\ Len(PagesIssued) = 2
    /\ Len(fetchOut3.records) = 4
    /\ fetchOut.records = << >>


-----------------------------------------------------------------------------
(* The kettle game: calculate_blackout over what get_capacity_data returns *)

Statuses == { "blackout", "critical", "warning", "normal" }

\* The status the load earns against the connected capacity, both in kW.
StatusFor(load_kw, avail_kw) ==
    IF load_kw >= avail_kw THEN "blackout"
    ELSE IF load_kw * 100 > 90 * avail_kw THEN "critical"
    ELSE IF load_kw * 100 > 70 * avail_kw THEN "warning"
    ELSE "normal"

\* C20: for every summary get_capacity_data returns (the all-zero summary and
\* a snapshot with connected capacity 0 included) and every kettle_count >= 0,
\* calculate_blackout completes with one status among blackout, critical,
\* warning and normal and a blackout_percentage within 0..100: blackout exactly
\* when the kettle load is at least the connected capacity, otherwise critical
\* above 90%, warning above 70%, normal at or below 70%.
C20_BlackoutCompletes ==
    \A t \in Threads :
        (game[t] # None /\ ~IsException(ret[t])) =>
            LET out      == game[t].out
                load_kw  == game[t].kettle_count * kettle_power
                avail_kw == ret[t].summary.connected_capacity.v * 100
            IN  /\ ~IsException(out)
                /\ out.status \in Statuses
                /\ out.blackout_percentage.num >= 0
                /\ out.blackout_percentage.num <= 100 * out.blackout_percentage.den
                /\ out.status = StatusFor(load_kw, avail_kw)
====
